---- MODULE Spec2Model ----
(***************************************************************************)
(* A model of server.js: the register / login handlers over the users1     *)
(* table, the JWT gate (authenticateJWT), and the customers handlers       *)
(* (list, get, put, delete, search) over the customers table.              *)
(*                                                                         *)
(* Every handler is a sequence of atomic steps separated by its awaits:    *)
(* the synchronous prefix runs when the request arrives, and each awaited  *)
(* bcrypt or sqlite call is one later step, so the steps of requests in    *)
(* flight interleave as they do on the event loop.                         *)
(*                                                                         *)
(* Three specifications share the actions: Spec runs register and login    *)
(* requests, two in flight; SpecToken runs register, login and the guarded *)
(* /protected-route one request at a time while the clock advances;        *)
(* SpecCustomers runs the customers routes one request at a time against   *)
(* the initial rows.  A customers handler awaits a single sqlite call and  *)
(* the driver runs the calls one after another, so its requests are taken  *)
(* one at a time.  The sqlite and bcrypt calls are taken to succeed: a     *)
(* handler's catch block is reached only where bcrypt refuses its          *)
(* argument.                                                               *)
(*                                                                         *)
(* JavaScript values are tagged records: [t |-> "undefined"],              *)
(* [t |-> "string", s |-> <<characters>>], [t |-> "number", n |-> n],      *)
(* [t |-> "jwt", ...], [t |-> "object", ...] for a row.  SQL NULL is       *)
(* [t |-> "null"].                                                         *)
(***************************************************************************)
EXTENDS Integers, Sequences, FiniteSets, TLC

VARIABLES
    users,        \* the rows of table users1, in rowid order
    customers,    \* the rows of table customers, as a function id -> row
    reqs,         \* the requests in flight and their responses, per slot
    now,          \* the clock, in seconds (jsonwebtoken's clockTimestamp)
    clientToken   \* the last jwtToken sent to a client, or Undefined

vars == <<users, customers, reqs, now, clientToken>>

-----------------------------------------------------------------------------
(* Bounds of the model *)

MaxUsers == 2        \* rows of users1 the model lets registrations create
MaxTime == 7200      \* the clock stops advancing here
MaxCustomers == 2    \* customer ids 1..MaxCustomers exist initially

-----------------------------------------------------------------------------
(* JavaScript values *)

Undefined == [t |-> "undefined"]
Str(s) == [t |-> "string", s |-> s]
Num(n) == [t |-> "number", n |-> n]
NULL == [t |-> "null"]

\* !v
Truthy(v) ==
    CASE v.t = "undefined" -> FALSE
      [] v.t = "null" -> FALSE
      [] v.t = "string" -> v.s # <<>>
      [] v.t = "number" -> v.n # 0
      [] OTHER -> TRUE

\* the comparison off by one: v.length < 4
LengthAtMost4_Lt4(v) == v.t = "string" /\ Len(v.s) < 4

\* v.length <= 4: a string has a length; a number has none, and
\* undefined <= 4 is false
LengthAtMost4(v) == v.t = "string" /\ Len(v.s) <= 4

Min(S) == CHOOSE m \in S : \A n \in S : m <= n

-----------------------------------------------------------------------------
(* bcrypt *)

BCRYPT_MAX_BYTES == 72

Salts == {"salt1", "salt2"}

\* the first n elements of s
Take(s, n) == SubSeq(s, 1, IF Len(s) < n THEN Len(s) ELSE n)

\* bcrypt.hash(data, 10): a fresh salt, and a digest of the first 72 bytes
\* of the data (bcrypt ignores the rest); the salt is stored in the hash
BcryptHash(data, salt) ==
    [t |-> "bcrypt", salt |-> salt, digest |-> Take(data.s, BCRYPT_MAX_BYTES)]

\* bcrypt.compare(data, hash): hashes data with the salt of hash and compares
BcryptCompare(data, hash) == BcryptHash(data, hash.salt) = hash

-----------------------------------------------------------------------------
(* jsonwebtoken *)

JWT_SECRET == "your_secret_key"

EXPIRES_IN == 3600

\* the HS256 signature of a payload under a key
HMAC(payload, key) == [msg |-> payload, key |-> key]

\* jwt.sign(payload, secret, { expiresIn: "1h" }) at clock time time
JwtSign(payload, secret, time) ==
    LET p == [email |-> payload.email, name |-> payload.name,
              iat |-> time, exp |-> time + EXPIRES_IN]
    IN  [t |-> "jwt", payload |-> p, sig |-> HMAC(p, secret)]

\* the expiry compared the other way: a token is still good at its exp
JwtVerify_AcceptsAtExp(token, secret, time) ==
    IF token.t # "jwt"
    THEN [err |-> TRUE, user |-> Undefined]
    ELSE IF token.sig # HMAC(token.payload, secret)
    THEN [err |-> TRUE, user |-> Undefined]
    ELSE IF time > token.payload.exp
    THEN [err |-> TRUE, user |-> Undefined]
    ELSE [err |-> FALSE, user |-> token.payload]

\* jwt.verify(token, secret, callback) at clock time time: the callback's
\* (err, user)
JwtVerify(token, secret, time) ==
    IF token.t # "jwt"
    THEN [err |-> TRUE, user |-> Undefined]          \* jwt malformed
    ELSE IF token.sig # HMAC(token.payload, secret)
    THEN [err |-> TRUE, user |-> Undefined]          \* invalid signature
    ELSE IF time >= token.payload.exp
    THEN [err |-> TRUE, user |-> Undefined]          \* jwt expired
    ELSE [err |-> FALSE, user |-> token.payload]

-----------------------------------------------------------------------------
(* Requests and responses *)

Slots == {1, 2}

Text(msg) == [t |-> "text", msg |-> msg]

NoBody ==
    [name |-> Undefined, email |-> Undefined, password |-> Undefined,
     phone |-> Undefined, company |-> Undefined]

IdleReq ==
    [route |-> "none", pc |-> "idle", header |-> Undefined, id |-> 0,
     body |-> NoBody, query |-> Undefined, hashedPassword |-> Undefined,
     dbUser |-> Undefined, user |-> Undefined, status |-> 0,
     send |-> Undefined]

\* a request as express hands it to the route
NewReq(route, header, id, body, query) ==
    [IdleReq EXCEPT !.route = route, !.pc = "arrived", !.header = header,
                    !.id = id, !.body = body, !.query = query]

\* response.status(status).send(send): the handler is finished and its
\* locals are gone
Respond(req, status, send) ==
    [req EXCEPT !.pc = "done", !.status = status, !.send = send,
                !.hashedPassword = Undefined, !.dbUser = Undefined]

\* no request occupies slot r
Free(r) == reqs[r].pc = "idle"

\* The response in slot r has been delivered: the request is over.
Close(r) ==
    /\ reqs[r].pc = "done"
    /\ reqs' = [reqs EXCEPT ![r] = IdleReq]
    /\ UNCHANGED <<users, customers, now, clientToken>>

-----------------------------------------------------------------------------
(* The inputs the requests are drawn from *)

ANN == Str(<<"A", "n", "n">>)
BOB == Str(<<"B", "o", "b">>)
ANN_EMAIL == Str(<<"a", "@", "x">>)
BOB_EMAIL == Str(<<"b", "@", "x">>)

PASS4 == Str(<<"p", "a", "s", "s">>)
PASS5 == Str(<<"p", "a", "s", "s", "1">>)
\* two passwords of 73 characters that differ in the last one only
Pad72 == [i \in 1..BCRYPT_MAX_BYTES |-> "p"]
LONG1 == Str(Pad72 \o <<"1">>)
LONG2 == Str(Pad72 \o <<"2">>)

Fields(name, email, password) ==
    [name |-> name, email |-> email, password |-> password,
     phone |-> Undefined, company |-> Undefined]

\* the bodies of POST /register
RegisterBodies ==
    { Fields(ANN, ANN_EMAIL, PASS5),
      Fields(BOB, ANN_EMAIL, LONG1),
      Fields(BOB, BOB_EMAIL, PASS5),
      Fields(Str(<<>>), ANN_EMAIL, PASS5),
      Fields(ANN, Undefined, PASS5),
      Fields(ANN, ANN_EMAIL, Undefined),
      Fields(ANN, ANN_EMAIL, Str(<<>>)),
      Fields(BOB, ANN_EMAIL, PASS4),
      Fields(ANN, BOB_EMAIL, Num(12345)) }

\* the bodies of POST /login
LoginBodies ==
    { Fields(Undefined, ANN_EMAIL, PASS5),
      Fields(Undefined, ANN_EMAIL, PASS4),
      Fields(Undefined, ANN_EMAIL, LONG1),
      Fields(Undefined, ANN_EMAIL, LONG2),
      Fields(Undefined, BOB_EMAIL, PASS5),
      Fields(Undefined, Undefined, PASS5),
      Fields(Undefined, ANN_EMAIL, Undefined),
      Fields(Undefined, ANN_EMAIL, Num(12345)) }

-----------------------------------------------------------------------------
(* users1 *)

\* SELECT * FROM users1 WHERE email = ? through db.get: the first row, or
\* undefined
DbGetUser(email) ==
    LET hits == {i \in DOMAIN users : users[i].email = email}
    IN  IF hits = {} THEN Undefined ELSE users[Min(hits)]

\* the register requests past validation that have not answered yet
RegistersInFlight ==
    {r \in Slots : reqs[r].route = "register" /\ reqs[r].pc \notin {"idle", "done"}}

-----------------------------------------------------------------------------
(* POST /register *)

\* The request arrives: validation, then bcrypt.hash is started.
Register(r) ==
    /\ Free(r)
    /\ \E body \in RegisterBodies :
         LET name == body.name
             email == body.email
             password == body.password
             req == NewReq("register", Undefined, 0, body, Undefined)
         IN  IF ~Truthy(name) \/ ~Truthy(email) \/ ~Truthy(password)
             THEN reqs' = [reqs EXCEPT ![r] = Respond(req, 400,
                      Text("Missing required fields: name, email, or password"))]
             ELSE IF LengthAtMost4(password)
             THEN reqs' = [reqs EXCEPT ![r] = Respond(req, 400,
                      Text("Password is too short"))]
             ELSE /\ \/ Len(users) + Cardinality(RegistersInFlight \ {r}) < MaxUsers
                     \/ DbGetUser(email) # Undefined
                  /\ reqs' = [reqs EXCEPT ![r] = [req EXCEPT !.pc = "hash"]]
    /\ UNCHANGED <<users, customers, now, clientToken>>

\* await bcrypt.hash(password, 10) settles; db.get is started.
RegisterHash(r) ==
    /\ reqs[r].route = "register" /\ reqs[r].pc = "hash"
    /\ IF reqs[r].body.password.t # "string"
       THEN \* data must be a string or Buffer: the promise rejects
            reqs' = [reqs EXCEPT ![r] = Respond(@, 500, Text("Internal Server Error"))]
       ELSE \E salt \in Salts :
            reqs' = [reqs EXCEPT ![r].hashedPassword =
                                     BcryptHash(reqs[r].body.password, salt),
                                 ![r].pc = "lookup"]
    /\ UNCHANGED <<users, customers, now, clientToken>>

\* await db.get(selectUserQuery, [email]) settles.
RegisterLookup(r) ==
    /\ reqs[r].route = "register" /\ reqs[r].pc = "lookup"
    /\ LET dbUser == DbGetUser(reqs[r].body.email)
       IN  IF dbUser = Undefined
           THEN reqs' = [reqs EXCEPT ![r].dbUser = dbUser, ![r].pc = "insert"]
           ELSE reqs' = [reqs EXCEPT ![r] = Respond(@, 400, Text("User already exists"))]
    /\ UNCHANGED <<users, customers, now, clientToken>>

\* await db.run(createUserQuery, [name, email, hashedPassword]) settles; the
\* token is signed and sent.
RegisterInsert(r) ==
    /\ reqs[r].route = "register" /\ reqs[r].pc = "insert"
    /\ LET req == reqs[r]
           jwtToken == JwtSign([email |-> req.body.email, name |-> req.body.name],
                               JWT_SECRET, now)
       IN  /\ users' = Append(users, [t |-> "object", name |-> req.body.name,
                                      email |-> req.body.email,
                                      password |-> req.hashedPassword])
           /\ reqs' = [reqs EXCEPT ![r] = Respond(@, 200,
                         [t |-> "json", jwtToken |-> jwtToken])]
           /\ clientToken' = jwtToken
    /\ UNCHANGED <<customers, now>>

-----------------------------------------------------------------------------
(* POST /login *)

Login(r) ==
    /\ Free(r)
    /\ \E body \in LoginBodies :
         LET email == body.email
             password == body.password
             req == NewReq("login", Undefined, 0, body, Undefined)
         IN  IF ~Truthy(email) \/ ~Truthy(password)
             THEN reqs' = [reqs EXCEPT ![r] = Respond(req, 400,
                      Text("Missing required fields: email or password"))]
             ELSE reqs' = [reqs EXCEPT ![r] = [req EXCEPT !.pc = "lookup"]]
    /\ UNCHANGED <<users, customers, now, clientToken>>

\* await db.get(selectUserQuery, [email]) settles; bcrypt.compare is started.
LoginLookup(r) ==
    /\ reqs[r].route = "login" /\ reqs[r].pc = "lookup"
    /\ LET dbUser == DbGetUser(reqs[r].body.email)
       IN  IF dbUser = Undefined
           THEN reqs' = [reqs EXCEPT ![r] = Respond(@, 400, Text("Invalid User"))]
           ELSE reqs' = [reqs EXCEPT ![r].dbUser = dbUser, ![r].pc = "compare"]
    /\ UNCHANGED <<users, customers, now, clientToken>>

\* await bcrypt.compare(password, dbUser.password) settles.
LoginCompare(r) ==
    /\ reqs[r].route = "login" /\ reqs[r].pc = "compare"
    /\ LET req == reqs[r]
           jwtToken == JwtSign([email |-> req.dbUser.email, name |-> req.dbUser.name],
                               JWT_SECRET, now)
       IN  IF req.body.password.t # "string"
           THEN \* data and hash must be strings: the promise rejects
                /\ reqs' = [reqs EXCEPT ![r] = Respond(@, 500, Text("Internal Server Error"))]
                /\ UNCHANGED clientToken
           ELSE IF BcryptCompare(req.body.password, req.dbUser.password)
           THEN /\ reqs' = [reqs EXCEPT ![r] = Respond(@, 200,
                              [t |-> "json", jwtToken |-> jwtToken])]
                /\ clientToken' = jwtToken
           ELSE /\ reqs' = [reqs EXCEPT ![r] = Respond(@, 400, Text("Invalid Password"))]
                /\ UNCHANGED clientToken
    /\ UNCHANGED <<users, customers, now>>

-----------------------------------------------------------------------------
(* authenticateJWT *)

\* an Authorization header value, by its fields between single spaces
Header(parts) == [t |-> "header", parts |-> parts]

BEARER == Str(<<"B", "e", "a", "r", "e", "r">>)
GARBAGE == Str(<<"x", "y", "z">>)

\* a token whose payload was altered after signing
Tamper(token) == [token EXCEPT !.payload.name = Str(<<"E", "v", "e">>)]

\* a token with the same claims and times signed with another key
Forge(token) == [token EXCEPT !.sig = HMAC(token.payload, "attacker_key")]

\* the headers a client may send, given the last token the server issued
Headers ==
    { Undefined,
      Header(<<BEARER>>),
      Header(<<BEARER, Str(<<>>)>>),
      Header(<<BEARER, GARBAGE>>) }
    \cup ( IF clientToken = Undefined THEN {}
           ELSE { Header(<<BEARER, clientToken>>),
                  Header(<<clientToken>>),
                  Header(<<BEARER, Tamper(clientToken)>>),
                  Header(<<BEARER, Forge(clientToken)>>) } )

\* the wrong field of the header: split(" ")[0]
HeaderToken_FirstField(header) ==
    IF header = Undefined THEN Undefined
    ELSE IF Len(header.parts) >= 1 THEN header.parts[1]
    ELSE Undefined

\* request.header("Authorization")?.split(" ")[1]
HeaderToken(header) ==
    IF header = Undefined THEN Undefined
    ELSE IF Len(header.parts) >= 2 THEN header.parts[2]
    ELSE Undefined

\* The middleware's outcome at clock time time: next is whether next() is
\* called, user is request.user, status the status it answers otherwise.
AuthenticateJWT(header, time) ==
    LET token == HeaderToken(header)
    IN  IF Truthy(token)
        THEN LET v == JwtVerify(token, JWT_SECRET, time)
             IN  IF v.err
                 THEN [next |-> FALSE, user |-> Undefined, status |-> 403,
                       send |-> Text("Invalid token")]
                 ELSE [next |-> TRUE, user |-> v.user, status |-> 0,
                       send |-> Undefined]
        ELSE [next |-> FALSE, user |-> Undefined, status |-> 401,
              send |-> Text("Authorization token is missing")]

\* GET /protected-route
ProtectedRoute(r) ==
    /\ Free(r)
    /\ \E header \in Headers :
         LET req == NewReq("protected-route", header, 0, NoBody, Undefined)
             gate == AuthenticateJWT(header, now)
         IN  IF gate.next
             THEN reqs' = [reqs EXCEPT ![r] = Respond([req EXCEPT !.user = gate.user],
                             200, Text("Hello, You are authenticated!"))]
             ELSE reqs' = [reqs EXCEPT ![r] = Respond(req, gate.status, gate.send)]
    /\ UNCHANGED <<users, customers, now, clientToken>>

-----------------------------------------------------------------------------
(* Time *)

Tick ==
    /\ \E d \in {EXPIRES_IN - 1, EXPIRES_IN} :
         /\ now + d <= MaxTime
         /\ now' = now + d
    /\ UNCHANGED <<users, customers, reqs, clientToken>>

-----------------------------------------------------------------------------
(* The authentication subsystem *)

Init ==
    /\ users = <<>>
    /\ customers = <<>>
    /\ reqs = [r \in Slots |-> IdleReq]
    /\ now = 0
    /\ clientToken = Undefined

\* register and login requests, two in flight
Next ==
    \/ \E r \in Slots : Register(r)
    \/ \E r \in Slots : RegisterHash(r)
    \/ \E r \in Slots : RegisterLookup(r)
    \/ \E r \in Slots : RegisterInsert(r)
    \/ \E r \in Slots : Login(r)
    \/ \E r \in Slots : LoginLookup(r)
    \/ \E r \in Slots : LoginCompare(r)
    \/ \E r \in Slots : Close(r)

Spec == Init /\ [][Next]_vars

-----------------------------------------------------------------------------
(* SQLite's LIKE *)

UPPER == <<"A", "B", "C", "D", "E", "F", "G", "H", "I", "J", "K", "L", "M",
           "N", "O", "P", "Q", "R", "S", "T", "U", "V", "W", "X", "Y", "Z">>
LOWER == <<"a", "b", "c", "d", "e", "f", "g", "h", "i", "j", "k", "l", "m",
           "n", "o", "p", "q", "r", "s", "t", "u", "v", "w", "x", "y", "z">>

\* LIKE compares ASCII letters without regard to case
Fold(c) ==
    IF \E i \in DOMAIN UPPER : UPPER[i] = c
    THEN LOWER[CHOOSE i \in DOMAIN UPPER : UPPER[i] = c]
    ELSE c

\* text LIKE pattern, on characters: % matches any run of characters, _ any
\* one character, every other character itself (letters folded)
RECURSIVE Like(_, _)
Like(pattern, text) ==
    IF pattern = <<>> THEN text = <<>>
    ELSE IF Head(pattern) = "%"
    THEN Like(Tail(pattern), text)
         \/ (text # <<>> /\ Like(pattern, Tail(text)))
    ELSE /\ text # <<>>
         /\ (Head(pattern) = "_" \/ Fold(Head(pattern)) = Fold(Head(text)))
         /\ Like(Tail(pattern), Tail(text))

\* column LIKE ? in a WHERE clause: NULL LIKE ... is NULL, which selects
\* nothing
SqlLike(value, pattern) == value.t = "string" /\ Like(pattern, value.s)

\* `${query}` in a template literal
TemplateString(v) ==
    IF v.t = "undefined"
    THEN <<"u", "n", "d", "e", "f", "i", "n", "e", "d">>
    ELSE v.s

\* `%${query}%`
SearchPattern(query) == <<"%">> \o TemplateString(query) \o <<"%">>

\* a parameter as sqlite3 binds it: undefined is left unbound, which is NULL
Bind(v) == IF v.t = "undefined" THEN NULL ELSE v

-----------------------------------------------------------------------------
(* customers *)

\* the row with this id before any request
InitialCustomer(id) ==
    [t |-> "object", id |-> id,
     name |-> IF id % 2 = 1 THEN Str(<<"A", "b">>) ELSE Str(<<"b", "_">>),
     email |-> IF id % 2 = 1 THEN Str(<<"a", "@", "x">>) ELSE Str(<<"B", "@", "y">>),
     phone |-> Str(<<"1">>),
     company |-> Str(<<"C">>)]

\* the ids a request may name: those of the initial rows and one more
CustomerIds == 1..(MaxCustomers + 1)

CustomerFields(name, email, phone, company) ==
    [name |-> name, email |-> email, password |-> Undefined,
     phone |-> phone, company |-> company]

\* the bodies of PUT /customers/:id
UpdateBodies ==
    { CustomerFields(Str(<<"C", "d">>), Str(<<"c", "@", "x">>), Str(<<"2">>), Str(<<"D">>)),
      CustomerFields(Undefined, Str(<<"c", "@", "x">>), Str(<<"2">>), Undefined),
      CustomerFields(Undefined, Undefined, Undefined, Undefined) }

\* the query parameter of GET /search
Queries ==
    { Undefined, Str(<<>>), Str(<<"a">>), Str(<<"B">>), Str(<<"_">>),
      Str(<<"@", "X">>) }

\* SELECT * FROM customers
SelectAll == {customers[i] : i \in DOMAIN customers}

\* SELECT * FROM customers WHERE id = ? through db.get
SelectById(id) == IF id \in DOMAIN customers THEN customers[id] ELSE Undefined

\* SELECT * FROM customers WHERE name LIKE ? OR email LIKE ?
SelectLike(p1, p2) ==
    {c \in SelectAll : SqlLike(c.name, p1) \/ SqlLike(c.email, p2)}

\* an update that keeps the old value of an omitted field
UpdateById_KeepOmitted(name, email, phone, company, id) ==
    IF id \in DOMAIN customers
    THEN [customers EXCEPT ![id] =
            [t |-> "object", id |-> id,
             name |-> IF name.t = "undefined" THEN @.name ELSE name,
             email |-> IF email.t = "undefined" THEN @.email ELSE email,
             phone |-> IF phone.t = "undefined" THEN @.phone ELSE phone,
             company |-> IF company.t = "undefined" THEN @.company ELSE company]]
    ELSE customers

\* UPDATE customers SET name = ?, email = ?, phone = ?, company = ?
\* WHERE id = ?: the table afterwards
UpdateById(name, email, phone, company, id) ==
    IF id \in DOMAIN customers
    THEN [customers EXCEPT ![id] = [t |-> "object", id |-> id, name |-> Bind(name),
                                    email |-> Bind(email), phone |-> Bind(phone),
                                    company |-> Bind(company)]]
    ELSE customers

\* a delete without its WHERE clause
DeleteById_NoWhere(id) == [i \in {} |-> customers[i]]

\* DELETE FROM customers WHERE id = ?: the table afterwards
DeleteById(id) == [i \in DOMAIN customers \ {id} |-> customers[i]]

\* result.changes of an UPDATE or DELETE ... WHERE id = ?
Changes(id) == IF id \in DOMAIN customers THEN 1 ELSE 0

-----------------------------------------------------------------------------
(* GET /customers *)

GetCustomers(r) ==
    /\ Free(r)
    /\ reqs' = [reqs EXCEPT ![r] =
                  [NewReq("customers", Undefined, 0, NoBody, Undefined) EXCEPT !.pc = "db"]]
    /\ UNCHANGED <<users, customers, now, clientToken>>

\* await db.all(query) settles.
GetCustomersAll(r) ==
    /\ reqs[r].route = "customers" /\ reqs[r].pc = "db"
    /\ reqs' = [reqs EXCEPT ![r] = Respond(@, 200,
                  [t |-> "json", success |-> TRUE, customers |-> SelectAll])]
    /\ UNCHANGED <<users, customers, now, clientToken>>

-----------------------------------------------------------------------------
(* The routes behind authenticateJWT *)

\* next() called whatever jwt.verify says
Guarded_AlwaysNext(r, req) ==
    LET gate == AuthenticateJWT(req.header, now)
    IN  reqs' = [reqs EXCEPT ![r] = [req EXCEPT !.user = gate.user, !.pc = "db"]]

\* The request arrives at a guarded route: the middleware answers it, or
\* calls the handler, which starts its query.
Guarded(r, req) ==
    LET gate == AuthenticateJWT(req.header, now)
    IN  IF gate.next
        THEN reqs' = [reqs EXCEPT ![r] = [req EXCEPT !.user = gate.user, !.pc = "db"]]
        ELSE reqs' = [reqs EXCEPT ![r] = Respond(req, gate.status, gate.send)]

\* GET /customers/:id
GetCustomer(r) ==
    /\ Free(r)
    /\ \E header \in Headers, id \in CustomerIds :
         Guarded(r, NewReq("get", header, id, NoBody, Undefined))
    /\ UNCHANGED <<users, customers, now, clientToken>>

\* await db.get(query, [id]) settles.
GetCustomerGet(r) ==
    /\ reqs[r].route = "get" /\ reqs[r].pc = "db"
    /\ LET customer == SelectById(reqs[r].id)
       IN  IF Truthy(customer)
           THEN reqs' = [reqs EXCEPT ![r] = Respond(@, 200,
                           [t |-> "json", success |-> TRUE, customer |-> customer])]
           ELSE reqs' = [reqs EXCEPT ![r] = Respond(@, 404, Text("Customer not found"))]
    /\ UNCHANGED <<users, customers, now, clientToken>>

\* PUT /customers/:id
PutCustomer(r) ==
    /\ Free(r)
    /\ \E header \in Headers, id \in CustomerIds, body \in UpdateBodies :
         Guarded(r, NewReq("put", header, id, body, Undefined))
    /\ UNCHANGED <<users, customers, now, clientToken>>

\* await db.run(updateQuery, [name, email, phone, company, id]) settles.
PutCustomerRun(r) ==
    /\ reqs[r].route = "put" /\ reqs[r].pc = "db"
    /\ LET req == reqs[r]
           changes == Changes(req.id)
       IN  /\ customers' = UpdateById(req.body.name, req.body.email,
                                      req.body.phone, req.body.company, req.id)
           /\ IF changes = 0
              THEN reqs' = [reqs EXCEPT ![r] = Respond(@, 404, Text("Customer not found"))]
              ELSE reqs' = [reqs EXCEPT ![r] = Respond(@, 200,
                              [t |-> "json", success |-> TRUE,
                               message |-> "Customer updated successfully"])]
    /\ UNCHANGED <<users, now, clientToken>>

\* DELETE /customers/:id
DeleteCustomer(r) ==
    /\ Free(r)
    /\ \E header \in Headers, id \in CustomerIds :
         Guarded(r, NewReq("delete", header, id, NoBody, Undefined))
    /\ UNCHANGED <<users, customers, now, clientToken>>

\* await db.run(deleteQuery, [id]) settles.
DeleteCustomerRun(r) ==
    /\ reqs[r].route = "delete" /\ reqs[r].pc = "db"
    /\ LET req == reqs[r]
           changes == Changes(req.id)
       IN  /\ customers' = DeleteById(req.id)
           /\ IF changes = 0
              THEN reqs' = [reqs EXCEPT ![r] = Respond(@, 404, Text("Customer not found"))]
              ELSE reqs' = [reqs EXCEPT ![r] = Respond(@, 200,
                              [t |-> "json", success |-> TRUE,
                               message |-> "Customer deleted successfully"])]
    /\ UNCHANGED <<users, now, clientToken>>

-----------------------------------------------------------------------------
(* GET /search *)

Search(r) ==
    /\ Free(r)
    /\ \E query \in Queries :
         reqs' = [reqs EXCEPT ![r] =
                    [NewReq("search", Undefined, 0, NoBody, query) EXCEPT !.pc = "db"]]
    /\ UNCHANGED <<users, customers, now, clientToken>>

\* await db.all(searchQuery, [`%${query}%`, `%${query}%`]) settles.
SearchAll(r) ==
    /\ reqs[r].route = "search" /\ reqs[r].pc = "db"
    /\ LET query == reqs[r].query
       IN  reqs' = [reqs EXCEPT ![r] = Respond(@, 200,
                      [t |-> "json", success |-> TRUE,
                       customers |-> SelectLike(SearchPattern(query),
                                                SearchPattern(query))])]
    /\ UNCHANGED <<users, customers, now, clientToken>>

-----------------------------------------------------------------------------
(* The customers routes: one request at a time against the initial rows,   *)
(* by a client that registered at time 0 and holds the token it was sent   *)

InitCustomers ==
    /\ users = <<[t |-> "object", name |-> ANN, email |-> ANN_EMAIL,
                  password |-> BcryptHash(PASS5, "salt1")]>>
    /\ customers = [id \in 1..MaxCustomers |-> InitialCustomer(id)]
    /\ reqs = [r \in Slots |-> IdleReq]
    /\ now = 0
    /\ clientToken = JwtSign([email |-> ANN_EMAIL, name |-> ANN], JWT_SECRET, 0)

NextCustomers ==
    \/ GetCustomers(1)
    \/ GetCustomersAll(1)
    \/ GetCustomer(1)
    \/ GetCustomerGet(1)
    \/ PutCustomer(1)
    \/ PutCustomerRun(1)
    \/ DeleteCustomer(1)
    \/ DeleteCustomerRun(1)
    \/ Search(1)
    \/ SearchAll(1)
    \/ ProtectedRoute(1)
    \/ Close(1)
    \/ Tick

SpecCustomers == InitCustomers /\ [][NextCustomers]_vars

-----------------------------------------------------------------------------
(* Tokens and the gate: one request at a time, and the clock advances *)

NextToken ==
    \/ Register(1)
    \/ RegisterHash(1)
    \/ RegisterLookup(1)
    \/ RegisterInsert(1)
    \/ Login(1)
    \/ LoginLookup(1)
    \/ LoginCompare(1)
    \/ ProtectedRoute(1)
    \/ Close(1)
    \/ Tick

SpecToken == Init /\ [][NextToken]_vars

-----------------------------------------------------------------------------
(* Claims about register and login, under Spec *)

\* the rows of users1 with this email
RowsWithEmail(email) == {i \in DOMAIN users : users[i].email = email}

\* a field that is absent or the empty string
AbsentOrEmpty(v) == v = Undefined \/ v = Str(<<>>)

\* C1: no two User records share the same email, in every interleaving of
\* register requests.
C1_UniqueEmail ==
    \A i, j \in DOMAIN users : users[i].email = users[j].email => i = j

\* C2: a valid register request succeeds exactly once per email: a request
\* never comes to insert a User whose email is already stored (a later call
\* with the same email is answered "User already exists", whatever its name
\* and password), and a request that was sent a token left exactly one User
\* with its email.
C2_RegisterOnce ==
    \A r \in Slots :
        reqs[r].route = "register" =>
            /\ reqs[r].pc = "insert" => RowsWithEmail(reqs[r].body.email) = {}
            /\ (reqs[r].pc = "done" /\ reqs[r].status = 200) =>
                   Cardinality(RowsWithEmail(reqs[r].body.email)) = 1

\* a register body that validation must refuse
InvalidRegistration(body) ==
    \/ AbsentOrEmpty(body.name)
    \/ AbsentOrEmpty(body.email)
    \/ AbsentOrEmpty(body.password)
    \/ (body.password.t = "string" /\ Len(body.password.s) < 5)

\* C6: a register request with an absent or empty name, email or password,
\* or a password of 4 characters or fewer, is answered 400 on arrival and
\* leaves users1 unchanged; and every User record has a non-empty name and
\* email and the hash of a password of more than 4 characters.
C6_RegisterValidation ==
    /\ [](\A r \in Slots :
            (reqs[r].route = "register" /\ InvalidRegistration(reqs[r].body)) =>
                (reqs[r].pc = "done" /\ reqs[r].status = 400))
    /\ [](\A i \in DOMAIN users :
            /\ users[i].name.t = "string" /\ Len(users[i].name.s) > 0
            /\ users[i].email.t = "string" /\ Len(users[i].email.s) > 0
            /\ Len(users[i].password.digest) > 4)
    /\ [][\A r \in Slots :
            (reqs'[r] # reqs[r] /\ reqs'[r].route = "register"
                /\ InvalidRegistration(reqs'[r].body)) => users' = users]_vars

\* C6 happens: a request with a password of exactly 4 characters was
\* answered 400 while a User exists.
C6_Witness ==
    /\ users # <<>>
    /\ \E r \in Slots :
        /\ reqs[r].route = "register" /\ reqs[r].pc = "done"
        /\ reqs[r].body.password = PASS4
        /\ reqs[r].status = 400

\* the password given when this User was registered
RegisteredPassword(row) ==
    (CHOOSE b \in RegisterBodies :
        /\ b.name = row.name /\ b.email = row.email
        /\ b.password.t = "string"
        /\ Len(b.password.s) > 4
        /\ BcryptCompare(b.password, row.password)).password

\* C3: when a login's password check settles, then for every User with the
\* request's email: the password given at that User's registration is sent a
\* token with the User's {email, name}, and any other password is answered
\* 400 "Invalid Password" and no token; and a login whose lookup finds no
\* User is answered 400 "Invalid User".
C3_Login ==
    [][\A r \in Slots :
        /\ (reqs[r].route = "login" /\ reqs[r].pc = "compare"
              /\ reqs'[r].pc = "done" /\ reqs[r].body.password.t = "string") =>
             \A i \in RowsWithEmail(reqs[r].body.email) :
                IF reqs[r].body.password = RegisteredPassword(users[i])
                THEN /\ reqs'[r].status = 200
                     /\ reqs'[r].send.t = "json"
                     /\ reqs'[r].send.jwtToken.payload.email = users[i].email
                     /\ reqs'[r].send.jwtToken.payload.name = users[i].name
                ELSE /\ reqs'[r].status = 400
                     /\ reqs'[r].send = Text("Invalid Password")
        /\ (reqs[r].route = "login" /\ reqs[r].pc = "lookup"
              /\ RowsWithEmail(reqs[r].body.email) = {} /\ reqs'[r] # reqs[r]) =>
             /\ reqs'[r].status = 400
             /\ reqs'[r].send = Text("Invalid User")]_vars

-----------------------------------------------------------------------------
(* Claims about tokens, under SpecToken *)

\* the token's signature is the server's over the token's payload
SignatureVerifies(token) ==
    token.sig = [msg |-> token.payload, key |-> "your_secret_key"]

\* C4: a token issued by register or login carries the User's claims and
\* expires 3600 seconds after it was issued; the gate accepts it, with
\* these claims, at every time before that and refuses it from then on; and
\* whatever token a request carries, the gate accepts it exactly when its
\* signature verifies against the server's secret and the clock is before
\* its expiry.
C4_TokenRoundTrip ==
    [][/\ clientToken' # clientToken =>
            /\ clientToken'.payload.iat = now
            /\ clientToken'.payload.exp = now + 3600
            /\ SignatureVerifies(clientToken')
            /\ \E i \in DOMAIN users' :
                 /\ users'[i].email = clientToken'.payload.email
                 /\ users'[i].name = clientToken'.payload.name
       /\ \A r \in Slots :
            (reqs'[r] # reqs[r] /\ reqs'[r].route = "protected-route"
                /\ HeaderToken(reqs'[r].header).t = "jwt") =>
              LET token == HeaderToken(reqs'[r].header)
                  accepted == reqs'[r].status = 200
              IN  /\ reqs'[r].status \in {200, 403}
                  /\ accepted <=> (SignatureVerifies(token) /\ now < token.payload.exp)
                  /\ token = clientToken =>
                       /\ accepted <=> now < token.payload.iat + 3600
                       /\ accepted =>
                            /\ reqs'[r].user.email = token.payload.email
                            /\ reqs'[r].user.name = token.payload.name]_vars

\* C4 happens: the token the server issued was refused at the very second
\* it expired.
C4_Witness ==
    /\ clientToken # Undefined
    /\ now = clientToken.payload.exp
    /\ \E r \in Slots :
        /\ reqs[r].route = "protected-route" /\ reqs[r].pc = "done"
        /\ reqs[r].header = Header(<<BEARER, clientToken>>)
        /\ reqs[r].status = 403

-----------------------------------------------------------------------------
(* Claims about the gate and the customers routes, under SpecCustomers *)

GuardedRoutes == {"protected-route", "get", "put", "delete"}

\* a request arrives at a guarded route in slot r
GateStep(r) ==
    /\ reqs[r].pc = "idle"
    /\ reqs'[r] # reqs[r]
    /\ reqs'[r].route \in GuardedRoutes

\* the request in slot r was passed to its handler with these claims
Admitted(req, claims) ==
    /\ req.user = claims
    /\ IF req.route = "protected-route"
       THEN req.pc = "done" /\ req.status = 200
       ELSE req.pc = "db" /\ req.status = 0

\* the request in slot r was answered by the gate with this status
Rejected(req, status) ==
    /\ req.pc = "done" /\ req.status = status /\ req.user = Undefined
    /\ req.send.t = "text"

\* the header is "<scheme> <token>" with a token that verifies at this time
CarriesValidToken(header, time) ==
    /\ header # Undefined
    /\ Len(header.parts) = 2
    /\ header.parts[2].t = "jwt"
    /\ SignatureVerifies(header.parts[2])
    /\ time < header.parts[2].payload.exp

\* C5: the gate answers 401 exactly when the Authorization header is
\* absent, 403 when it is present but malformed or its token is invalid or
\* expired, and passes the request on with the decoded claims when it
\* carries a valid unexpired token.
C5_GateByHeader ==
    [][\A r \in Slots : GateStep(r) =>
         LET req == reqs'[r]
         IN  IF req.header = Undefined THEN Rejected(req, 401)
             ELSE IF CarriesValidToken(req.header, now)
             THEN Admitted(req, req.header.parts[2].payload)
             ELSE Rejected(req, 403)]_vars

\* no token can be taken from the header: it is absent, or has no second
\* field, or an empty one
NoToken(header) ==
    \/ header = Undefined
    \/ Len(header.parts) < 2
    \/ header.parts[2] = Str(<<>>)

\* the second field of the header is a token that verifies at this time
SecondFieldValid(header, time) ==
    /\ header.parts[2].t = "jwt"
    /\ SignatureVerifies(header.parts[2])
    /\ time < header.parts[2].payload.exp

\* C5, amended: 401 exactly when no token can be taken from the header
\* (absent header, or no second space-separated field, or an empty one);
\* 403 exactly when there is a second field and it is not a valid unexpired
\* token; otherwise the request is passed on with the decoded claims.
C5_GateByToken ==
    [][\A r \in Slots : GateStep(r) =>
         LET req == reqs'[r]
         IN  IF NoToken(req.header) THEN Rejected(req, 401)
             ELSE IF SecondFieldValid(req.header, now)
             THEN Admitted(req, req.header.parts[2].payload)
             ELSE Rejected(req, 403)]_vars

\* C5 happens: a request whose header is the scheme alone was answered 401,
\* with a valid token in the client's hands.
C5_Witness ==
    /\ now < clientToken.payload.exp
    /\ \E r \in Slots :
        /\ reqs[r].route \in GuardedRoutes /\ reqs[r].pc = "done"
        /\ reqs[r].header = Header(<<BEARER>>)
        /\ reqs[r].status = 401

\* C9: a request the gate rejects (401 or 403) is answered at once and
\* never reaches its handler; the customers table changes, and a customer
\* row is sent, only in the database step of a request the gate passed on,
\* and the gate passes on only requests whose token verifies.
C9_GateProtects ==
    [][/\ \A r \in Slots : GateStep(r) =>
            /\ customers' = customers
            /\ reqs'[r].status \in {401, 403} =>
                 (reqs'[r].pc = "done" /\ reqs'[r].send.t = "text")
            /\ reqs'[r].status \notin {401, 403} =>
                 (~NoToken(reqs'[r].header)
                    /\ SecondFieldValid(reqs'[r].header, now)
                    /\ reqs'[r].user = reqs'[r].header.parts[2].payload)
       /\ \A r \in Slots :
            (reqs'[r].route \in GuardedRoutes /\ reqs'[r].pc = "db") =>
                (GateStep(r) \/ reqs[r] = reqs'[r])
       /\ (customers' # customers) =>
            \E r \in Slots : /\ reqs[r].route \in {"put", "delete"}
                             /\ reqs[r].pc = "db"
                             /\ reqs[r].user # Undefined
                             /\ reqs'[r].pc = "done"
       /\ \A r \in Slots :
            (reqs'[r] # reqs[r] /\ reqs'[r].route = "get"
                /\ reqs'[r].send.t = "json") =>
                (reqs[r].pc = "db" /\ reqs[r].user # Undefined)]_vars

\* C9 happens: a delete of an existing row with a forged token was answered
\* 403 and the row is still there.
C9_Witness ==
    \E r \in Slots :
        /\ reqs[r].route = "delete" /\ reqs[r].pc = "done"
        /\ reqs[r].header = Header(<<BEARER, Forge(clientToken)>>)
        /\ reqs[r].status = 403
        /\ reqs[r].id \in DOMAIN customers

\* the database step of the request in slot r on this route
DbStep(r, route) ==
    /\ reqs[r].route = route /\ reqs[r].pc = "db"
    /\ reqs'[r].pc = "done"

\* C7: a delete of an id with no row is answered 404 and leaves the table
\* unchanged; a delete of an id with a row removes that row and no other
\* and succeeds; an id once without a row stays without one, and a get of
\* such an id is answered 404.
C7_Delete ==
    [][/\ \A r \in Slots : DbStep(r, "delete") =>
            LET id == reqs[r].id
            IN  IF id \notin DOMAIN customers
                THEN /\ reqs'[r].status = 404
                     /\ reqs'[r].send = Text("Customer not found")
                     /\ customers' = customers
                ELSE /\ reqs'[r].status = 200
                     /\ reqs'[r].send.success
                     /\ DOMAIN customers' = DOMAIN customers \ {id}
                     /\ \A j \in DOMAIN customers' : customers'[j] = customers[j]
       /\ \A id \in CustomerIds :
            id \notin DOMAIN customers => id \notin DOMAIN customers'
       /\ \A r \in Slots : DbStep(r, "get") =>
            IF reqs[r].id \notin DOMAIN customers
            THEN reqs'[r].status = 404
            ELSE /\ reqs'[r].status = 200
                 /\ reqs'[r].send.customer = customers[reqs[r].id]]_vars

\* C7 happens: a second delete of an initial row was answered 404, with
\* another row left in the table.
C7_Witness ==
    /\ customers # <<>>
    /\ \E r \in Slots :
        /\ reqs[r].route = "delete" /\ reqs[r].pc = "done"
        /\ reqs[r].id \in 1..MaxCustomers
        /\ reqs[r].id \notin DOMAIN customers
        /\ reqs[r].status = 404

\* the value a row holds for a field of the body: the absent value for an
\* omitted field
Supplied(v) == IF v = Undefined THEN NULL ELSE v

\* C10: an update of an id with a row sets its name, email, phone and
\* company to the supplied values (the absent value for an omitted field),
\* leaves its id and every other row unchanged and succeeds; an update of an
\* id with no row is answered 404 "Customer not found" and leaves the table
\* unchanged.
C10_Update ==
    [][\A r \in Slots : DbStep(r, "put") =>
         LET id == reqs[r].id
             body == reqs[r].body
         IN  IF id \notin DOMAIN customers
             THEN /\ reqs'[r].status = 404
                  /\ reqs'[r].send = Text("Customer not found")
                  /\ customers' = customers
             ELSE /\ reqs'[r].status = 200
                  /\ reqs'[r].send.success
                  /\ DOMAIN customers' = DOMAIN customers
                  /\ customers'[id].id = id
                  /\ customers'[id].name = Supplied(body.name)
                  /\ customers'[id].email = Supplied(body.email)
                  /\ customers'[id].phone = Supplied(body.phone)
                  /\ customers'[id].company = Supplied(body.company)
                  /\ \A j \in DOMAIN customers \ {id} :
                       customers'[j] = customers[j]]_vars

\* C10 happens: an update that omitted the name succeeded and the row's
\* name is now the absent value, the other row being as it was.
C10_Witness ==
    \E r \in Slots :
        /\ reqs[r].route = "put" /\ reqs[r].pc = "done"
        /\ reqs[r].status = 200
        /\ reqs[r].body.name = Undefined
        /\ reqs[r].body.email # Undefined
        /\ reqs[r].id \in DOMAIN customers
        /\ customers[reqs[r].id].name = NULL
        /\ \E j \in DOMAIN customers : customers[j] = InitialCustomer(j)

\* s with its ASCII letters in lower case
LowerCase(s) == [i \in DOMAIN s |-> Fold(s[i])]

\* sub occurs in s
Contains(s, sub) ==
    \E k \in 0..(Len(s) - Len(sub)) : SubSeq(s, k + 1, k + Len(sub)) = sub

\* the field is a text that contains the substring, case-insensitively
FieldContains(value, sub) ==
    value.t = "string" /\ Contains(LowerCase(value.s), LowerCase(sub))

\* C8: a search with an empty or absent query returns every row of the
\* table, and a search for a substring returns exactly the rows whose name
\* or email contains it, case-insensitively.
C8_Search ==
    [][\A r \in Slots : DbStep(r, "search") =>
         LET query == reqs[r].query
             all == {customers[i] : i \in DOMAIN customers}
         IN  /\ reqs'[r].status = 200
             /\ IF query = Undefined \/ query = Str(<<>>)
                THEN reqs'[r].send.customers = all
                ELSE reqs'[r].send.customers =
                       {c \in all : \/ FieldContains(c.name, query.s)
                                    \/ FieldContains(c.email, query.s)}]_vars

====
